---- MODULE Spec2Model ----
(***************************************************************************)
(* Issue / sprint lifecycle of the Jira-lite backend.  The repository      *)
(* holds three variants of the server: server.js ("base"),                 *)
(* serverMaster.js ("master") and the enhanced server with comprehensive   *)
(* delete functions ("enhanced").  One behaviour runs one variant; the     *)
(* variant is chosen in Init and never changes.                            *)
(*                                                                         *)
(* Every HTTP handler is one action: it reads the JSON collections,        *)
(* validates, writes the collections and answers.  The request is kept in  *)
(* req and the answer in resp so that properties can speak about them.     *)
(* The two update handlers that await the request body between their read  *)
(* and their write also exist in two steps, with what they have read kept  *)
(* in inflight; sessions holds sessions.json.                              *)
(***************************************************************************)
EXTENDS Integers, Sequences, FiniteSets, TLC

VARIABLES variant, projects, issues, sprints, workflows, notifications,
          attachments, now, nextProjectId, nextIssueId, nextSprintId,
          nextAttachmentId, req, resp, sessions, inflight

vars == <<variant, projects, issues, sprints, workflows, notifications,
          attachments, now, nextProjectId, nextIssueId, nextSprintId,
          nextAttachmentId, req, resp, sessions, inflight>>

(***************************************************************************)
(* Bounds                                                                  *)
(***************************************************************************)
MaxProjects == 2
MaxIssues == 2
MaxSprints == 2
MaxNotifications == 2
MaxNow == 2
MaxAttachments == 1

(***************************************************************************)
(* Values                                                                  *)
(***************************************************************************)
Variants == {"base", "master", "enhanced"}

\* JS null for a string-valued field, and a key that the body does not hold
NULL == "null"
ABSENT == "absent"
\* JS null for an id or a date, a key that the body does not hold, and a
\* property that the object does not have (undefined)
NoId == 0
AbsentId == -1
Undefined == -1

\* users.json after the registrations: id -> role
Role == [a |-> "admin", m |-> "project_manager", d |-> "developer", v |-> "viewer"]
UserIds == DOMAIN Role
\* a user id that resolves to no user
Ghost == "ghost"

DefaultStatuses == <<"To Do", "In Progress", "Done">>

NoBody == [projectId |-> AbsentId, title |-> ABSENT, name |-> ABSENT,
           status |-> ABSENT, assignee |-> ABSENT, parentId |-> AbsentId,
           sprintId |-> AbsentId, issueId |-> AbsentId,
           startDate |-> AbsentId, endDate |-> AbsentId,
           statuses |-> <<>>, files |-> 0]

\* JS truthiness of a body value (absent, null, "" and 0 are all falsy)
TruthyStr(s) == s # ABSENT /\ s # NULL
TruthyId(i) == i > 0

Range(s) == {s[i] : i \in 1..Len(s)}

(***************************************************************************)
(* Collection lookups (Array.prototype.find on unique ids)                 *)
(***************************************************************************)
HasProject(ps, id) == \E p \in ps : p.id = id
ProjectOf(ps, id) == CHOOSE p \in ps : p.id = id
HasIssue(is, id) == \E i \in is : i.id = id
IssueOf(is, id) == CHOOSE i \in is : i.id = id
HasSprint(ss, id) == \E s \in ss : s.id = id
SprintOf(ss, id) == CHOOSE s \in ss : s.id = id

\* workflows.find(w => w.projectId === projectId): index of first match, 0 if none
WorkflowIndex(wfs, pid) ==
  IF \E k \in 1..Len(wfs) : wfs[k].projectId = pid
  THEN CHOOSE k \in 1..Len(wfs) :
         /\ wfs[k].projectId = pid
         /\ \A j \in 1..(k - 1) : wfs[j].projectId # pid
  ELSE 0

(***************************************************************************)
(* sendNotification                                                        *)
(***************************************************************************)
\* [...new Set(userIds)]: first occurrences, in order
RECURSIVE Unique(_)
Unique(s) ==
  IF s = <<>> THEN <<>>
  ELSE LET r == Unique(SubSeq(s, 1, Len(s) - 1))
           x == s[Len(s)]
       IN IF x \in Range(r) THEN r ELSE Append(r, x)

RECURSIVE NotifyEach(_, _, _)
NotifyEach(ns, ids, msg) ==
  IF ids = <<>> THEN ns
  ELSE NotifyEach(Append(ns, [userId |-> Head(ids), message |-> msg, read |-> FALSE]),
                  Tail(ids), msg)

\* base pushes one entry per element; master and enhanced de-duplicate first
Recipients(v, ids) == IF v = "base" THEN ids ELSE Unique(ids)

sendNotification(v, ns, ids, msg) ==
  IF ids = <<>> THEN ns ELSE NotifyEach(ns, Recipients(v, ids), msg)

(***************************************************************************)
(* ensureWorkflow                                                          *)
(***************************************************************************)
DefaultWorkflow(pid) ==
  [projectId |-> pid, statuses |-> DefaultStatuses, transitions |-> <<>>]

ensureWorkflowAlwaysAppends(wfs, pid) == Append(wfs, DefaultWorkflow(pid))

\* the workflows collection after ensureWorkflow(pid)
ensureWorkflow(wfs, pid) ==
  IF WorkflowIndex(wfs, pid) = 0 THEN Append(wfs, DefaultWorkflow(pid)) ELSE wfs

\* the workflow that ensureWorkflow(pid) returns
WorkflowFor(wfs, pid) ==
  LET after == ensureWorkflow(wfs, pid) IN after[WorkflowIndex(after, pid)]

(***************************************************************************)
(* Init: the state after startup (empty collections), users registered     *)
(***************************************************************************)
\* no request is waiting for its body
NoInflight == [op |-> "none", actor |-> NULL, id |-> NoId, issues |-> {}, sprints |-> {}]

NoReq == [op |-> "none", actor |-> NULL, id |-> NoId, body |-> NoBody]
NoResp == [code |-> 0, msg |-> "", deletedIssues |-> Undefined,
           deletedSprints |-> Undefined, movedIssues |-> Undefined, data |-> <<>>]

Init ==
  /\ variant \in Variants
  /\ projects = {}
  /\ issues = {}
  /\ sprints = {}
  /\ workflows = <<>>
  /\ notifications = <<>>
  /\ attachments = {}
  /\ now = 1
  /\ nextProjectId = 1
  /\ nextIssueId = 1
  /\ nextSprintId = 1
  /\ nextAttachmentId = 1
  /\ req = NoReq
  /\ resp = NoResp
  /\ sessions = {}
  /\ inflight = NoInflight

Request(op, actor, id, body) == [op |-> op, actor |-> actor, id |-> id, body |-> body]
Response(code, msg) == [NoResp EXCEPT !.code = code, !.msg = msg]

\* the catch block: base answers 400 to every thrown error; master and
\* enhanced answer 400 when the message has one of the listed words, else 500
ClientErrorMessages ==
  {"Project name is required", "Project name and key are required",
   "projectId and title are required", "Project not found", "Invalid status",
   "Assignee not found", "Parent issue not found", "Sprint not found",
   "Sprint name is required", "issueId is required", "Issue not found"}

\* a notification text: its wording, the name it quotes, and what else it holds
Message(kind, q) == [kind |-> kind, q |-> q, status |-> "", n |-> 0]

Thrown(v, msg) ==
  Response(IF v = "base" \/ msg \in ClientErrorMessages THEN 400 ELSE 500, msg)

\* an answer that changes nothing but resp
Reject(r, rs) ==
  /\ req' = r
  /\ resp' = rs
  /\ UNCHANGED <<variant, sessions, inflight, projects, issues, sprints, workflows, notifications,
                 attachments, now, nextProjectId, nextIssueId, nextSprintId,
                 nextAttachmentId>>

\* an error thrown after ensureWorkflow has run: workflows.json may be written
RejectAfterWorkflow(r, rs, wfs) ==
  /\ req' = r
  /\ resp' = rs
  /\ workflows' = wfs
  /\ UNCHANGED <<variant, sessions, inflight, projects, issues, sprints, notifications,
                 attachments, now, nextProjectId, nextIssueId, nextSprintId,
                 nextAttachmentId>>

(***************************************************************************)
(* Time passes                                                             *)
(***************************************************************************)
Tick ==
  /\ now < MaxNow
  /\ now' = now + 1
  /\ UNCHANGED <<variant, sessions, inflight, projects, issues, sprints, workflows, notifications,
                 attachments, nextProjectId, nextIssueId, nextSprintId,
                 nextAttachmentId, req, resp>>

(***************************************************************************)
(* POST /api/projects                                                      *)
(***************************************************************************)
CreateProject(actor, body) ==
  LET r == Request("createProject", actor, NoId, body) IN
  IF Role[actor] \notin {"admin", "project_manager"}
  THEN Reject(r, Response(403, "Forbidden"))
  ELSE IF ~TruthyStr(body.name)
  THEN Reject(r, Thrown(variant, IF variant = "base" THEN "Project name is required"
                                 ELSE "Project name and key are required"))
  ELSE
    /\ nextProjectId <= MaxProjects
    /\ projects' = projects \cup
         {[id |-> nextProjectId, name |-> body.name, ownerId |-> actor]}
    /\ nextProjectId' = nextProjectId + 1
    \* master and enhanced initialise the workflow of the new project
    /\ workflows' = IF variant = "base" THEN workflows
                    ELSE ensureWorkflow(workflows, nextProjectId)
    /\ req' = r
    /\ resp' = Response(201, "")
    /\ UNCHANGED <<variant, sessions, inflight, issues, sprints, notifications, attachments, now,
                   nextIssueId, nextSprintId, nextAttachmentId>>

(***************************************************************************)
(* PUT /api/projects/:id                                                   *)
(***************************************************************************)
UpdateProjectAs(op, actor, pid, body) ==
  LET r == Request(op, actor, pid, body) IN
  IF ~HasProject(projects, pid)
  THEN Reject(r, Response(404, "Project not found"))
  ELSE LET project == ProjectOf(projects, pid) IN
    IF Role[actor] # "admin" /\ project.ownerId # actor
    THEN Reject(r, Response(403, "Forbidden"))
    ELSE
      /\ projects' = (projects \ {project}) \cup
           {[project EXCEPT !.name = IF TruthyStr(body.name) THEN body.name ELSE @]}
      /\ req' = r
      /\ resp' = Response(200, "")
      /\ UNCHANGED <<variant, sessions, inflight, issues, sprints, workflows, notifications, attachments,
                     now, nextProjectId, nextIssueId, nextSprintId, nextAttachmentId>>

UpdateProject(actor, pid, body) == UpdateProjectAs("updateProject", actor, pid, body)

(***************************************************************************)
(* GET /api/projects/:projectId/workflow                                   *)
(***************************************************************************)
GetWorkflow(actor, pid) ==
  LET r == Request("getWorkflow", actor, pid, NoBody) IN
  IF ~HasProject(projects, pid)
  THEN Reject(r, Response(404, "Project not found"))
  ELSE RejectAfterWorkflow(r, Response(200, ""), ensureWorkflow(workflows, pid))

(***************************************************************************)
(* PUT /api/projects/:projectId/workflow.  The router tests the routes in  *)
(* order and "PUT /api/projects/" (update project) comes first and matches *)
(* by prefix.  base takes the last path segment, "workflow", as the        *)
(* project id; master and enhanced take the fourth segment, the project.   *)
(***************************************************************************)
PutWorkflow(actor, pid, body) ==
  IF variant = "base"
  THEN Reject(Request("putWorkflow", actor, pid, body), Response(404, "Project not found"))
  ELSE UpdateProjectAs("putWorkflow", actor, pid, body)

(***************************************************************************)
(* POST /api/issues                                                        *)
(***************************************************************************)
StatusValidAlways(wf, status) == TRUE

\* workflow.statuses.includes(status)
StatusValid(wf, status) == status \in Range(wf.statuses)

DefaultStatusLast(wf) == wf.statuses[Len(wf.statuses)]

\* workflow.statuses[0]
DefaultStatus(wf) == wf.statuses[1]

\* parent lookup: base accepts any issue, master and enhanced one of the project
ParentFound(v, is, parentId, pid) ==
  \E i \in is : i.id = parentId /\ (v = "base" \/ i.projectId = pid)

SprintFound(ss, sprintId) == HasSprint(ss, sprintId)
SprintInProject(ss, sprintId, pid) == \E s \in ss : s.id = sprintId /\ s.projectId = pid

\* saveAttachment for each uploaded file (master and enhanced, multipart)
Uploaded(v, n, issueId) ==
  IF v # "base" /\ n > 0
  THEN {[id |-> nextAttachmentId, issueId |-> issueId]}
  ELSE {}

CreateIssueNotifyIds(v, actor, assignee, ownerId) ==
  (IF TruthyStr(assignee) /\ (v = "base" \/ assignee # actor) THEN <<assignee>> ELSE <<>>)
  \o (IF ownerId # actor THEN <<ownerId>> ELSE <<>>)

CreateIssue(actor, body) ==
  LET r == Request("createIssue", actor, NoId, body)
      pid == body.projectId
  IN
  IF Role[actor] = "viewer" THEN Reject(r, Response(403, "Forbidden"))
  ELSE IF ~TruthyId(pid) \/ ~TruthyStr(body.title)
  THEN Reject(r, Thrown(variant, "projectId and title are required"))
  ELSE IF ~HasProject(projects, pid)
  THEN Reject(r, Thrown(variant, "Project not found"))
  ELSE
    LET project == ProjectOf(projects, pid)
        wfs == ensureWorkflow(workflows, pid)
        workflow == WorkflowFor(workflows, pid)
        issueStatus == IF TruthyStr(body.status) THEN body.status ELSE DefaultStatus(workflow)
        fail(msg) == RejectAfterWorkflow(r, Thrown(variant, msg), wfs)
    IN
    IF TruthyStr(body.status) /\ ~StatusValid(workflow, body.status)
    THEN fail("Invalid status")
    ELSE IF TruthyStr(body.assignee) /\ body.assignee \notin UserIds
    THEN fail("Assignee not found")
    ELSE IF TruthyId(body.parentId) /\ ~ParentFound(variant, issues, body.parentId, pid)
    THEN fail("Parent issue not found")
    ELSE IF TruthyId(body.sprintId) /\ ~SprintFound(sprints, body.sprintId)
    THEN fail("Sprint not found")
    ELSE IF TruthyId(body.sprintId) /\ ~SprintInProject(sprints, body.sprintId, pid)
    THEN fail(IF variant = "base" THEN "Sprint does not belong to this project"
              ELSE "Sprint not found")
    ELSE
      LET newIssue == [id |-> nextIssueId, projectId |-> pid, title |-> body.title,
                       status |-> issueStatus,
                       assignee |-> IF TruthyStr(body.assignee) THEN body.assignee ELSE NULL,
                       parentId |-> IF TruthyId(body.parentId) THEN body.parentId ELSE NoId,
                       sprintId |-> IF TruthyId(body.sprintId) THEN body.sprintId ELSE NoId,
                       creatorId |-> actor, doneAt |-> Undefined]
          files == Uploaded(variant, body.files, nextIssueId)
      IN
      /\ nextIssueId <= MaxIssues
      /\ nextAttachmentId + Cardinality(files) <= MaxAttachments + 1
      /\ issues' = issues \cup {newIssue}
      /\ nextIssueId' = nextIssueId + 1
      /\ workflows' = wfs
      /\ attachments' = attachments \cup files
      /\ nextAttachmentId' = nextAttachmentId + Cardinality(files)
      /\ notifications' = sendNotification(variant, notifications,
           CreateIssueNotifyIds(variant, actor, body.assignee, project.ownerId),
           Message("issue_created", body.title))
      /\ Len(notifications') <= MaxNotifications
      /\ req' = r
      /\ resp' = Response(201, "")
      /\ UNCHANGED <<variant, sessions, inflight, projects, sprints, now, nextProjectId, nextSprintId>>

(***************************************************************************)
(* PUT /api/issues/:id                                                     *)
(***************************************************************************)
IsProjectOwner(actor, issue, ps) ==
  \E p \in ps : p.id = issue.projectId /\ p.ownerId = actor

CanEditUnlessViewer(actor, issue, ps) == Role[actor] # "viewer"

CanEdit(actor, issue, ps) ==
  \/ Role[actor] = "admin"
  \/ actor = issue.creatorId
  \/ actor = issue.assignee
  \/ IsProjectOwner(actor, issue, ps)

\* doneAt after a status change from old to new at time t; only base records it
DoneAtAfter(v, old, new, doneAt, t) ==
  IF v # "base" THEN doneAt
  ELSE IF new = "Done" /\ old # "Done" THEN t
  ELSE IF old = "Done" /\ new # "Done" THEN NoId
  ELSE doneAt

\* the first error the loop over the allowed keys throws, "" when it throws none
UpdateIssueError(v, issue, body, wfs, is, ss) ==
  IF body.status # ABSENT /\ ~StatusValid(WorkflowFor(wfs, issue.projectId), body.status)
  THEN "Invalid status"
  ELSE IF TruthyStr(body.assignee) /\ body.assignee \notin UserIds
  THEN "Assignee not found"
  ELSE IF v # "base" /\ TruthyId(body.parentId)
          /\ ~ParentFound(v, is, body.parentId, issue.projectId)
  THEN "Parent issue not found"
  ELSE IF v # "base" /\ TruthyId(body.parentId) /\ body.parentId = issue.id
  THEN "Issue cannot be its own parent"
  ELSE IF TruthyId(body.sprintId) /\ ~SprintFound(ss, body.sprintId)
  THEN "Sprint not found"
  ELSE IF TruthyId(body.sprintId) /\ ~SprintInProject(ss, body.sprintId, issue.projectId)
  THEN IF v = "base" THEN "Sprint does not belong to this project" ELSE "Sprint not found"
  ELSE ""

\* the issue after the loop over the allowed keys, when nothing is thrown
UpdatedIssue(v, issue, body, t) ==
  LET newStatus == IF body.status # ABSENT THEN body.status ELSE issue.status IN
  [issue EXCEPT
     !.title = IF body.title # ABSENT THEN body.title ELSE @,
     !.status = newStatus,
     !.doneAt = IF newStatus # issue.status
                THEN DoneAtAfter(v, issue.status, newStatus, @, t) ELSE @,
     !.assignee = IF body.assignee = ABSENT THEN @
                  ELSE IF TruthyStr(body.assignee) THEN body.assignee ELSE NULL,
     !.parentId = IF body.parentId = AbsentId THEN @ ELSE body.parentId,
     !.sprintId = IF body.sprintId = AbsentId THEN @ ELSE body.sprintId]

\* recipients of "status changed": base does not leave the actor out
StatusNotifyIds(v, actor, issue, ps) ==
  (IF issue.assignee # NULL /\ (v = "base" \/ issue.assignee # actor)
   THEN <<issue.assignee>> ELSE <<>>)
  \o (IF HasProject(ps, issue.projectId)
         /\ (v = "base" \/ ProjectOf(ps, issue.projectId).ownerId # actor)
      THEN <<ProjectOf(ps, issue.projectId).ownerId>> ELSE <<>>)

AssigneeNotifyIds(v, actor, issue) ==
  IF issue.assignee # NULL /\ (v = "base" \/ issue.assignee # actor)
  THEN <<issue.assignee>> ELSE <<>>

UpdateIssue(actor, id, body) ==
  LET r == Request("updateIssue", actor, id, body) IN
  IF ~HasIssue(issues, id) THEN Reject(r, Response(404, "Issue not found"))
  ELSE LET issue == IssueOf(issues, id) IN
    IF ~CanEdit(actor, issue, projects) THEN Reject(r, Response(403, "Forbidden"))
    ELSE
      LET wfs == IF body.status # ABSENT
                 THEN ensureWorkflow(workflows, issue.projectId) ELSE workflows
          err == UpdateIssueError(variant, issue, body, workflows, issues, sprints)
      IN
      IF err # "" THEN RejectAfterWorkflow(r, Thrown(variant, err), wfs)
      ELSE
        LET after == UpdatedIssue(variant, issue, body, now)
            files == Uploaded(variant, body.files, id)
            ns1 == IF after.status # issue.status
                   THEN sendNotification(variant, notifications,
                          StatusNotifyIds(variant, actor, after, projects),
                          [Message("status_changed", after.title)
                             EXCEPT !.status = after.status])
                   ELSE notifications
            ns2 == IF after.assignee # issue.assignee
                   THEN sendNotification(variant, ns1,
                          AssigneeNotifyIds(variant, actor, after),
                          Message("assigned", after.title))
                   ELSE ns1
        IN
        /\ nextAttachmentId + Cardinality(files) <= MaxAttachments + 1
        /\ Len(ns2) <= MaxNotifications
        /\ issues' = (issues \ {issue}) \cup {after}
        /\ workflows' = wfs
        /\ attachments' = attachments \cup files
        /\ nextAttachmentId' = nextAttachmentId + Cardinality(files)
        /\ notifications' = ns2
        /\ req' = r
        /\ resp' = Response(200, "")
        /\ UNCHANGED <<variant, sessions, inflight, projects, sprints, now, nextProjectId, nextIssueId,
                       nextSprintId>>

(***************************************************************************)
(* Sprints                                                                 *)
(***************************************************************************)
MayManage(actor, project) ==
  Role[actor] \in {"admin", "project_manager"} \/ project.ownerId = actor

NoRoute(r) == Reject(r, Response(404, "Not found"))

\* assignees of the issues is, in the order of the collection
RECURSIVE AssigneesUpTo(_, _)
AssigneesUpTo(is, k) ==
  IF k = 0 THEN <<>>
  ELSE LET rest == AssigneesUpTo(is, k - 1) IN
       IF HasIssue(is, k) /\ IssueOf(is, k).assignee # NULL
       THEN Append(rest, IssueOf(is, k).assignee) ELSE rest

Assignees(is) == AssigneesUpTo(is, nextIssueId - 1)

Without(ids, actor) == SelectSeq(ids, LAMBDA u : u # actor)

\* POST /api/projects/:projectId/sprints
CreateSprint(actor, pid, body) ==
  LET r == Request("createSprint", actor, pid, body) IN
  IF ~HasProject(projects, pid) THEN Reject(r, Response(404, "Project not found"))
  ELSE IF ~MayManage(actor, ProjectOf(projects, pid))
  THEN Reject(r, Response(403, "Forbidden"))
  ELSE IF ~TruthyStr(body.name) THEN Reject(r, Thrown(variant, "Sprint name is required"))
  ELSE IF variant # "base" /\ TruthyId(body.startDate) /\ TruthyId(body.endDate)
          /\ body.startDate >= body.endDate
  THEN Reject(r, Thrown(variant, "End date must be after start date"))
  ELSE
    /\ nextSprintId <= MaxSprints
    /\ sprints' = sprints \cup
         {[id |-> nextSprintId, projectId |-> pid, name |-> body.name,
           startDate |-> IF TruthyId(body.startDate) THEN body.startDate ELSE NoId,
           endDate |-> IF TruthyId(body.endDate) THEN body.endDate ELSE NoId,
           status |-> "planning", closedAt |-> NoId]}
    /\ nextSprintId' = nextSprintId + 1
    /\ req' = r
    /\ resp' = Response(201, "")
    /\ UNCHANGED <<variant, sessions, inflight, projects, issues, workflows, notifications, attachments,
                   now, nextProjectId, nextIssueId, nextAttachmentId>>

\* mutants of StartError: the check of "closed", or of "active", left out
StartErrorClosedAllowed(status) ==
  IF status = "active" THEN "Sprint already started" ELSE ""

StartErrorActiveAllowed(status) ==
  IF status = "closed" THEN "Cannot start a closed sprint" ELSE ""

\* the sprint's status check of start: "" when the sprint may start
StartError(status) ==
  IF status = "active" THEN "Sprint already started"
  ELSE IF status = "closed" THEN "Cannot start a closed sprint"
  ELSE ""

StartedSprint(sprint, t) ==
  [sprint EXCEPT !.status = "active",
                 !.startDate = IF @ = NoId THEN t ELSE @]

SprintNotifyIds(v, actor, ownerId, assignees) ==
  IF v = "base" THEN Unique(<<ownerId>> \o assignees)
  ELSE Without(Unique(<<ownerId>> \o Unique(assignees)), actor)

\* POST /api/sprints/:sprintId/start
StartSprint(actor, sid) ==
  LET r == Request("startSprint", actor, sid, NoBody) IN
  IF ~HasSprint(sprints, sid) THEN Reject(r, Response(404, "Sprint not found"))
  ELSE LET sprint == SprintOf(sprints, sid) IN
    IF ~HasProject(projects, sprint.projectId)
    THEN Reject(r, Response(404, "Project not found"))
    ELSE LET project == ProjectOf(projects, sprint.projectId) IN
      IF ~MayManage(actor, project) THEN Reject(r, Response(403, "Forbidden"))
      ELSE IF StartError(sprint.status) # ""
      THEN Reject(r, Thrown(variant, StartError(sprint.status)))
      ELSE
        /\ sprints' = (sprints \ {sprint}) \cup {StartedSprint(sprint, now)}
        /\ notifications' = sendNotification(variant, notifications,
             SprintNotifyIds(variant, actor, project.ownerId,
                             Assignees({i \in issues : i.sprintId = sid})),
             Message("sprint_started", sprint.name))
        /\ Len(notifications') <= MaxNotifications
        /\ req' = r
        /\ resp' = Response(200, "")
        /\ UNCHANGED <<variant, sessions, inflight, projects, issues, workflows, attachments, now,
                       nextProjectId, nextIssueId, nextSprintId, nextAttachmentId>>

ClosedSprintEndDateOverwritten(sprint, t) ==
  [sprint EXCEPT !.status = "closed", !.closedAt = t, !.endDate = t]

CloseError(status) == IF status = "closed" THEN "Sprint already closed" ELSE ""

ClosedSprint(sprint, t) ==
  [sprint EXCEPT !.status = "closed", !.closedAt = t,
                 !.endDate = IF @ = NoId THEN t ELSE @]

\* mutant of MovedOnClose: Done issues are moved too
MovedOnCloseAnyStatus(issue, sid) == issue.sprintId = sid

\* close returns an issue to the backlog when it is in the sprint and not Done
MovedOnClose(issue, sid) == issue.sprintId = sid /\ issue.status # "Done"

IssuesAfterClose(is, sid) ==
  {IF MovedOnClose(i, sid) THEN [i EXCEPT !.sprintId = NoId] ELSE i : i \in is}

\* the issues whose assignees close notifies, taken after the move
CloseNotifyIssue(v, i, sid, movedCount) ==
  IF v = "base" THEN i.sprintId = sid
  ELSE i.sprintId = sid \/ (movedCount > 0 /\ i.sprintId = NoId)

\* POST /api/sprints/:sprintId/close
CloseSprint(actor, sid) ==
  LET r == Request("closeSprint", actor, sid, NoBody) IN
  IF ~HasSprint(sprints, sid) THEN Reject(r, Response(404, "Sprint not found"))
  ELSE LET sprint == SprintOf(sprints, sid) IN
    IF ~HasProject(projects, sprint.projectId)
    THEN Reject(r, Response(404, "Project not found"))
    ELSE LET project == ProjectOf(projects, sprint.projectId) IN
      IF ~MayManage(actor, project) THEN Reject(r, Response(403, "Forbidden"))
      ELSE IF CloseError(sprint.status) # ""
      THEN Reject(r, Thrown(variant, CloseError(sprint.status)))
      ELSE
        LET after == IssuesAfterClose(issues, sid)
            movedCount == Cardinality({i \in issues : MovedOnClose(i, sid)})
        IN
        /\ sprints' = (sprints \ {sprint}) \cup {ClosedSprint(sprint, now)}
        /\ issues' = after
        /\ notifications' = sendNotification(variant, notifications,
             SprintNotifyIds(variant, actor, project.ownerId,
               Assignees({i \in after : CloseNotifyIssue(variant, i, sid, movedCount)})),
             [Message("sprint_closed", sprint.name)
                EXCEPT !.n = IF variant = "base" THEN 0 ELSE movedCount])
        /\ Len(notifications') <= MaxNotifications
        /\ req' = r
        /\ resp' = Response(200, "")
        /\ UNCHANGED <<variant, sessions, inflight, projects, workflows, attachments, now,
                       nextProjectId, nextIssueId, nextSprintId, nextAttachmentId>>

\* PUT /api/sprints/:sprintId (base; master and enhanced have no such route)
UpdatedSprintAnyStatus(sprint, body) ==
  [sprint EXCEPT
     !.name = IF TruthyStr(body.name) THEN body.name ELSE @,
     !.startDate = IF TruthyId(body.startDate) THEN body.startDate ELSE @,
     !.endDate = IF TruthyId(body.endDate) THEN body.endDate ELSE @]

UpdatedSprint(sprint, body) ==
  [sprint EXCEPT
     !.name = IF TruthyStr(body.name) THEN body.name ELSE @,
     !.startDate = IF sprint.status = "planning" /\ TruthyId(body.startDate)
                   THEN body.startDate ELSE @,
     !.endDate = IF sprint.status = "planning" /\ TruthyId(body.endDate)
                 THEN body.endDate ELSE @]

UpdateSprint(actor, sid, body) ==
  LET r == Request("updateSprint", actor, sid, body) IN
  IF variant # "base" THEN NoRoute(r)
  ELSE IF ~HasSprint(sprints, sid) THEN Reject(r, Response(404, "Sprint not found"))
  ELSE LET sprint == SprintOf(sprints, sid) IN
    IF ~HasProject(projects, sprint.projectId)
    THEN Reject(r, Response(404, "Project not found"))
    ELSE IF ~MayManage(actor, ProjectOf(projects, sprint.projectId))
    THEN Reject(r, Response(403, "Forbidden"))
    ELSE
      /\ sprints' = (sprints \ {sprint}) \cup {UpdatedSprint(sprint, body)}
      /\ req' = r
      /\ resp' = Response(200, "")
      /\ UNCHANGED <<variant, sessions, inflight, projects, issues, workflows, notifications, attachments,
                     now, nextProjectId, nextIssueId, nextSprintId, nextAttachmentId>>

\* GET /api/sprints/:sprintId/burndown (base; master and enhanced have no
\* such route).  Dates and doneAt are instants of the clock now, one unit a day.
RemainingDoneBefore(is, sid, day) ==
  Cardinality({i \in is : i.sprintId = sid /\ TruthyId(i.doneAt) /\ i.doneAt <= day})

\* issues of the sprint with no doneAt, or with doneAt after the day
Remaining(is, sid, day) ==
  Cardinality({i \in is : i.sprintId = sid /\ (~TruthyId(i.doneAt) \/ i.doneAt > day)})

\* sprint.endDate || today
BurndownEnd(sprint, t) == IF TruthyId(sprint.endDate) THEN sprint.endDate ELSE t

\* one {date, remaining} per day d with start <= d <= end
Burndown(sprint, is, t) ==
  [k \in 1..(BurndownEnd(sprint, t) - sprint.startDate + 1) |->
     [date |-> sprint.startDate + k - 1,
      remaining |-> Remaining(is, sprint.id, sprint.startDate + k - 1)]]

GetBurndown(actor, sid) ==
  LET r == Request("getBurndown", actor, sid, NoBody) IN
  IF variant # "base" THEN NoRoute(r)
  ELSE IF ~HasSprint(sprints, sid) THEN Reject(r, Response(404, "Sprint not found"))
  ELSE LET sprint == SprintOf(sprints, sid) IN
    IF ~TruthyId(sprint.startDate)
    THEN Reject(r, Thrown(variant, "Sprint has not started yet"))
    ELSE Reject(r, [Response(200, "") EXCEPT !.data = Burndown(sprint, issues, now)])

\* POST /api/sprints/:sprintId/issues (base; master and enhanced have no such route)
AssignIssue(actor, sid, body) ==
  LET r == Request("assignIssue", actor, sid, body) IN
  IF variant # "base" THEN NoRoute(r)
  ELSE IF ~HasSprint(sprints, sid) THEN Reject(r, Response(404, "Sprint not found"))
  ELSE LET sprint == SprintOf(sprints, sid) IN
    IF ~HasProject(projects, sprint.projectId)
    THEN Reject(r, Response(404, "Project not found"))
    ELSE IF Role[actor] = "viewer" THEN Reject(r, Response(403, "Forbidden"))
    ELSE IF ~TruthyId(body.issueId) THEN Reject(r, Thrown(variant, "issueId is required"))
    ELSE IF ~HasIssue(issues, body.issueId)
    THEN Reject(r, Thrown(variant, "Issue not found"))
    ELSE LET issue == IssueOf(issues, body.issueId) IN
      IF issue.projectId # sprint.projectId
      THEN Reject(r, Thrown(variant, "Issue does not belong to this project"))
      ELSE
        /\ issues' = (issues \ {issue}) \cup {[issue EXCEPT !.sprintId = sid]}
        /\ notifications' = sendNotification(variant, notifications,
             IF issue.assignee # NULL THEN <<issue.assignee>> ELSE <<>>,
             Message("added_to_sprint", issue.title))
        /\ Len(notifications') <= MaxNotifications
        /\ req' = r
        /\ resp' = Response(200, "")
        /\ UNCHANGED <<variant, sessions, inflight, projects, sprints, workflows, attachments, now,
                       nextProjectId, nextIssueId, nextSprintId, nextAttachmentId>>

(***************************************************************************)
(* DELETE /api/issues/:id                                                  *)
(***************************************************************************)
CanDelete(v, actor, issue, ps) ==
  \/ Role[actor] = "admin"
  \/ actor = issue.creatorId
  \/ (v = "enhanced" /\ actor = issue.assignee)
  \/ (v # "base" /\ IsProjectOwner(actor, issue, ps))

\* base removes the issue and its direct subtasks, the others the issue alone
RemovedWithIssue(v, i, id) == i.id = id \/ (v = "base" /\ i.parentId = id)

\* n.message.includes(`"${name}"`)
Quotes(n, name) == n.message.q = name

DeleteIssueNotifyIds(actor, issue, ps) ==
  IF ~HasProject(ps, issue.projectId) THEN <<>>
  ELSE (IF ProjectOf(ps, issue.projectId).ownerId # actor
        THEN <<ProjectOf(ps, issue.projectId).ownerId>> ELSE <<>>)
       \o (IF issue.assignee # NULL /\ issue.assignee # actor
           THEN <<issue.assignee>> ELSE <<>>)

DeleteIssue(actor, id) ==
  LET r == Request("deleteIssue", actor, id, NoBody) IN
  IF ~HasIssue(issues, id) THEN Reject(r, Response(404, "Issue not found"))
  ELSE LET issue == IssueOf(issues, id) IN
    IF ~CanDelete(variant, actor, issue, projects)
    THEN Reject(r, Response(403,
           IF variant = "enhanced"
           THEN "Forbidden: You can only delete issues you created, are assigned to, or own the project"
           ELSE "Forbidden"))
    ELSE
      /\ issues' = {i \in issues : ~RemovedWithIssue(variant, i, id)}
      /\ attachments' = IF variant = "base" THEN attachments
                        ELSE {a \in attachments : a.issueId # id}
      /\ notifications' =
           IF variant # "enhanced" THEN notifications
           ELSE sendNotification(variant,
                  SelectSeq(notifications, LAMBDA n : ~Quotes(n, issue.title)),
                  DeleteIssueNotifyIds(actor, issue, projects),
                  Message("issue_deleted", issue.title))
      /\ Len(notifications') <= MaxNotifications
      /\ req' = r
      /\ resp' = Response(200, "")
      /\ UNCHANGED <<variant, sessions, inflight, projects, sprints, workflows, now, nextProjectId,
                     nextIssueId, nextSprintId, nextAttachmentId>>

(***************************************************************************)
(* DELETE /api/sprints/:sprintId (enhanced): deleteSprintCompletely        *)
(***************************************************************************)
IssuesAfterSprintDeleteKept(is, sid) == is

IssuesAfterSprintDeleteOpenOnly(is, sid) ==
  {IF i.sprintId = sid /\ i.status # "Done" THEN [i EXCEPT !.sprintId = NoId] ELSE i
     : i \in is}

\* deleteSprintCompletely: the issues of the sprint go back to the backlog
IssuesAfterSprintDelete(is, sid) ==
  {IF i.sprintId = sid THEN [i EXCEPT !.sprintId = NoId] ELSE i : i \in is}

DeleteSprint(actor, sid) ==
  LET r == Request("deleteSprint", actor, sid, NoBody) IN
  IF variant # "enhanced" THEN NoRoute(r)
  ELSE IF Role[actor] # "admin"
  THEN Reject(r, Response(403, "Only administrators can delete sprints"))
  ELSE IF ~HasSprint(sprints, sid) THEN Reject(r, Response(404, "Sprint not found"))
  ELSE LET sprint == SprintOf(sprints, sid) IN
    /\ issues' = IssuesAfterSprintDelete(issues, sid)
    /\ notifications' = SelectSeq(notifications, LAMBDA n : ~Quotes(n, sprint.name))
    /\ sprints' = sprints \ {sprint}
    /\ req' = r
    /\ resp' = [Response(200, "") EXCEPT
                  !.movedIssues = Cardinality({i \in issues : i.sprintId = sid})]
    /\ UNCHANGED <<variant, sessions, inflight, projects, workflows, attachments, now, nextProjectId,
                   nextIssueId, nextSprintId, nextAttachmentId>>

(***************************************************************************)
(* DELETE /api/projects/:id                                                *)
(***************************************************************************)
MayDeleteProject(v, actor, ps, pid) ==
  \/ Role[actor] = "admin"
  \/ (v = "master" /\ \E p \in ps : p.id = pid /\ p.ownerId = actor)

\* base removes the project and its issues; master and enhanced also remove
\* its sprints and its workflow
SprintsAfterProjectDelete(v, ss, pid) ==
  IF v = "base" THEN ss ELSE {sp \in ss : sp.projectId # pid}

WorkflowsAfterProjectDelete(v, wfs, pid) ==
  IF v = "base" THEN wfs ELSE SelectSeq(wfs, LAMBDA w : w.projectId # pid)

\* deleteAttachmentsForIssues (enhanced)
AttachmentsAfterProjectDelete(v, as, is, pid) ==
  IF v # "enhanced" THEN as
  ELSE {a \in as : ~\E i \in is : i.projectId = pid /\ i.id = a.issueId}

\* deleteNotificationsForIssues calls some() on a Set, which has no such
\* method: the filter callback throws a TypeError as soon as it runs, that
\* is whenever notifications.json is not empty
NotificationFilterThrows(ns) == ns # <<>>

\* users with role admin or project_manager, other than the actor
Stakeholders(actor) ==
  Without(SelectSeq(<<"a", "m", "d", "v">>,
                    LAMBDA u : Role[u] \in {"admin", "project_manager"}), actor)

DeleteProject(actor, pid) ==
  LET r == Request("deleteProject", actor, pid, NoBody)
      found == HasProject(projects, pid)
      allowed == MayDeleteProject(variant, actor, projects, pid)
      project == ProjectOf(projects, pid)
      mine == {i \in issues : i.projectId = pid}
  IN
  IF variant = "master" /\ ~found THEN Reject(r, Response(404, "Project not found"))
  ELSE IF ~allowed
  THEN Reject(r, Response(403, IF variant = "enhanced"
                               THEN "Only administrators can delete projects"
                               ELSE "Forbidden"))
  ELSE IF ~found THEN Reject(r, Response(404, "Project not found"))
  ELSE IF variant = "enhanced" /\ NotificationFilterThrows(notifications)
  THEN \* the attachments are gone, the rest is left as it was
    /\ attachments' = AttachmentsAfterProjectDelete(variant, attachments, issues, pid)
    /\ req' = r
    /\ resp' = Response(404, "issueTitleSet.some is not a function")
    /\ UNCHANGED <<variant, sessions, inflight, projects, issues, sprints, workflows, notifications, now,
                   nextProjectId, nextIssueId, nextSprintId, nextAttachmentId>>
  ELSE
    /\ projects' = projects \ {project}
    /\ issues' = issues \ mine
    /\ sprints' = SprintsAfterProjectDelete(variant, sprints, pid)
    /\ workflows' = WorkflowsAfterProjectDelete(variant, workflows, pid)
    /\ attachments' = AttachmentsAfterProjectDelete(variant, attachments, issues, pid)
    /\ notifications' =
         IF variant = "enhanced"
         THEN sendNotification(variant, notifications, Stakeholders(actor),
                               Message("project_deleted", project.name))
         ELSE notifications
    /\ Len(notifications') <= MaxNotifications
    /\ req' = r
    /\ resp' = IF variant = "enhanced"
               THEN [Response(200, "") EXCEPT
                       !.deletedIssues = Cardinality(mine),
                       !.deletedSprints =
                          Cardinality({sp \in sprints : sp.projectId = pid})]
               ELSE Response(200, "")
    /\ UNCHANGED <<variant, sessions, inflight, now, nextProjectId, nextIssueId, nextSprintId,
                   nextAttachmentId>>

(***************************************************************************)
(* Request bodies                                                          *)
(***************************************************************************)
ProjectIds == 1..MaxProjects
IssueIds == 1..MaxIssues
SprintIds == 1..MaxSprints

Named(n) == [NoBody EXCEPT !.name = n]

(***************************************************************************)
(* SpecSprint: the sprint requests (create, start, close, update, delete)  *)
(* of one project whose owner is the admin, with issues created into the   *)
(* sprints, each request run to completion.                                *)
(***************************************************************************)
SprintIssueBodies ==
  {[NoBody EXCEPT !.projectId = 1, !.title = "Bug 1", !.status = st, !.sprintId = sp]
     : st \in {ABSENT, "Done"}, sp \in SprintIds}

SprintCreateBodies ==
  {Named("Sprint 1"), [Named("Sprint 1") EXCEPT !.startDate = 1, !.endDate = MaxNow + 1]}

SprintUpdateBodies ==
  {Named("Sprint 2"), [NoBody EXCEPT !.startDate = 1, !.endDate = 2]}

NextSprint ==
  \/ projects = {} /\ CreateProject("a", Named("Alpha"))
  \/ \E body \in SprintCreateBodies : CreateSprint("a", 1, body)
  \/ \E body \in SprintIssueBodies : CreateIssue("a", body)
  \/ \E sid \in SprintIds : StartSprint("a", sid)
  \/ \E sid \in SprintIds : CloseSprint("a", sid)
  \/ \E sid \in SprintIds, body \in SprintUpdateBodies : UpdateSprint("a", sid, body)
  \/ \E sid \in SprintIds : DeleteSprint("a", sid)

SpecSprint == Init /\ [][NextSprint]_vars

(***************************************************************************)
(* Properties                                                              *)
(***************************************************************************)
\* the step is the handling of a request of kind op
Handled(op) == req'.op = op /\ now' = now

SprintRank(status) ==
  CASE status = "planning" -> 0
    [] status = "active" -> 1
    [] status = "closed" -> 2

\* C1: in any sequence of sprint requests run one after another, the
\* persisted status of a sprint never moves backward along
\* planning -> active -> closed.
C1_StatusNeverRegresses ==
  [][\A s \in sprints : \A t \in sprints' :
       t.id = s.id => SprintRank(t.status) >= SprintRank(s.status)]_vars

\* an update of a closed sprint that had been started was answered 200
C1_Witness ==
  /\ req.op = "updateSprint" /\ resp.code = 200
  /\ \E s \in sprints : s.id = req.id /\ s.status = "closed" /\ s.closedAt # NoId

\* C2: a successful close of sprint S sets sprintId to null for every issue
\* of S that is not Done, and leaves the sprintId of every Done issue of S
\* and of every issue outside S as it was.
C2_CloseMovesOpenIssuesOnly ==
  [][(Handled("closeSprint") /\ resp'.code = 200) =>
       /\ {j.id : j \in issues'} = {i.id : i \in issues}
       /\ \A i \in issues : \A j \in issues' :
            j.id = i.id =>
              j.sprintId = IF i.sprintId = req'.id /\ i.status # "Done"
                           THEN NoId ELSE i.sprintId]_vars

\* a close was answered 200 with a Done issue left in the sprint and an
\* open issue in the backlog (SpecSprint creates every issue in a sprint, and
\* base has no sprint delete: the open issue was moved by a close)
C2_Witness ==
  /\ variant = "base" /\ req.op = "closeSprint" /\ resp.code = 200
  /\ \E i \in issues : i.sprintId = req.id /\ i.status = "Done"
  /\ \E i \in issues : i.sprintId = NoId /\ i.status # "Done"

\* C5: start on an active or closed sprint (by a user who may manage the
\* project) is rejected by the thrown validation error, and leaves the
\* sprints and the notifications as they were.
C5_StartRejected ==
  [][(/\ Handled("startSprint")
      /\ \E s \in sprints :
           /\ s.id = req'.id /\ s.status \in {"active", "closed"}
           /\ \E p \in projects :
                /\ p.id = s.projectId
                /\ (Role[req'.actor] \in {"admin", "project_manager"}
                    \/ p.ownerId = req'.actor))
       =>
       /\ resp'.code \in {400, 500}
       /\ resp'.msg \in {"Sprint already started", "Cannot start a closed sprint"}
       /\ sprints' = sprints
       /\ notifications' = notifications]_vars

\* a start after a close was rejected
C5_Witness ==
  /\ req.op = "startSprint" /\ resp.msg = "Cannot start a closed sprint"
  /\ \E s \in sprints : s.id = req.id /\ s.status = "closed"

(***************************************************************************)
(* SpecIssue: one project owned by the project manager; issues are created *)
(* by the manager and a developer and updated by every role; the workflow  *)
(* is read and a replacement is requested.                                 *)
(***************************************************************************)
NewStatuses == <<"Open", "Closed">>

\* a replacement list of statuses, and a body without statuses
WorkflowBodies == {[NoBody EXCEPT !.statuses = NewStatuses], NoBody}

IssueCreateBodies ==
  {[NoBody EXCEPT !.projectId = 1, !.title = "Bug 1", !.status = st]
     : st \in {ABSENT, "In Progress", "Open"}}

IssueUpdateBodies ==
  {[NoBody EXCEPT !.status = st] : st \in {"Done", "To Do", "Open", NULL}}
  \cup {[NoBody EXCEPT !.assignee = u] : u \in {"d", Ghost}}
  \cup {[NoBody EXCEPT !.parentId = MaxIssues], [NoBody EXCEPT !.sprintId = 1],
        [NoBody EXCEPT !.title = "Bug 2", !.status = "Open"]}

NextIssue ==
  \/ projects = {} /\ CreateProject("m", Named("Alpha"))
  \/ \E actor \in {"m", "d"}, body \in IssueCreateBodies : CreateIssue(actor, body)
  \/ \E actor \in UserIds, body \in IssueUpdateBodies : UpdateIssue(actor, 1, body)
  \/ GetWorkflow("a", 1)
  \/ \E body \in WorkflowBodies : PutWorkflow("a", 1, body)
  \/ Tick

SpecIssue == Init /\ [][NextIssue]_vars

(***************************************************************************)
(* Properties of the issue lifecycle                                       *)
(***************************************************************************)
\* the update of issue id that the step has just answered with 200
Updated(id) ==
  /\ Handled("updateIssue")
  /\ req'.id = id
  /\ resp'.code = 200
  /\ HasIssue(issues, id)

\* C4: an update that changes an issue's status from a status other than
\* "Done" to "Done" leaves doneAt a timestamp (neither null nor missing), and
\* an update that changes the status from "Done" to another status leaves
\* doneAt null.
C4_DoneAtFollowsStatus ==
  [][\A id \in IssueIds :
       Updated(id) =>
         LET old == IssueOf(issues, id)
             new == IssueOf(issues', id)
         IN /\ old.status # "Done" /\ new.status = "Done" => new.doneAt >= 1
            /\ old.status = "Done" /\ new.status # "Done" => new.doneAt = NoId]_vars

\* an issue has been moved to "Done" and the answer was 200
C4_Witness ==
  /\ req.op = "updateIssue"
  /\ resp.code = 200
  /\ req.body.status = "Done"
  /\ \E i \in issues : i.id = req.id /\ i.status = "Done"

C8_DefaultStatusIsFirst ==
  [][Handled("createIssue") /\ resp'.code = 201 /\ req'.body.status = ABSENT =>
       \E i \in issues' \ issues :
         LET k == WorkflowIndex(workflows, i.projectId) IN
         /\ k # 0 => i.status = workflows[k].statuses[1]
         /\ k = 0 => i.status = "To Do"]_vars

\* an issue has been created without a status
C8_Witness ==
  /\ req.op = "createIssue"
  /\ resp.code = 201
  /\ req.body.status = ABSENT
  /\ issues # {}

\* who may edit an issue: an admin, its creator, its assignee, the owner of its project
MayEdit(actor, issue) ==
  \/ Role[actor] = "admin"
  \/ issue.creatorId = actor
  \/ issue.assignee = actor
  \/ \E p \in projects : p.id = issue.projectId /\ p.ownerId = actor

\* the body names a status, an assignee, a sprint or a parent that does not resolve
BadReference(issue, body) ==
  \/ /\ body.status # ABSENT
     /\ \A k \in 1..Len(workflows) :
          workflows[k].projectId = issue.projectId => body.status \notin Range(workflows[k].statuses)
     /\ body.status \notin Range(DefaultStatuses)
  \/ TruthyStr(body.assignee) /\ body.assignee \notin UserIds
  \/ TruthyId(body.sprintId)
       /\ ~\E s \in sprints : s.id = body.sprintId /\ s.projectId = issue.projectId
  \/ TruthyId(body.parentId) /\ ~\E i \in issues : i.id = body.parentId

\* C9: an update by a user who may edit the issue, whose body names a status
\* outside the workflow, an unknown assignee, a sprint that is not one of the
\* project or a parent that is no issue, is rejected with an error and leaves
\* the issues collection as it was.
C9_InvalidUpdateRejected ==
  [][\A id \in IssueIds :
       /\ Handled("updateIssue")
       /\ req'.id = id
       /\ HasIssue(issues, id)
       /\ MayEdit(req'.actor, IssueOf(issues, id))
       /\ BadReference(IssueOf(issues, id), req'.body)
       => resp'.code \in {400, 500} /\ issues' = issues]_vars

\* an update naming a parent that is no issue has been answered
C9_Witness ==
  /\ req.op = "updateIssue"
  /\ TruthyId(req.body.parentId)
  /\ resp.code \in {200, 400}
  /\ ~HasIssue(issues, req.body.parentId)

\* C10: an update of an existing issue by a user who is neither an admin nor
\* the creator, the assignee or the owner of the project is answered 403
\* Forbidden and changes neither the issues nor the notifications.
C10_ForbiddenUpdate ==
  [][\A id \in IssueIds :
       /\ Handled("updateIssue")
       /\ req'.id = id
       /\ HasIssue(issues, id)
       /\ ~MayEdit(req'.actor, IssueOf(issues, id))
       => /\ resp'.code = 403
          /\ resp'.msg = "Forbidden"
          /\ issues' = issues
          /\ notifications' = notifications]_vars

\* a developer who has no tie to the issue has been refused
C10_Witness ==
  /\ req.op = "updateIssue"
  /\ resp.code = 403
  /\ Role[req.actor] = "developer"
  /\ \E i \in issues : i.id = req.id /\ i.creatorId # req.actor /\ i.assignee # req.actor

(***************************************************************************)
(* SpecRefs: an admin owns up to MaxProjects projects, each with sprints;  *)
(* issues are created in and moved between sprints by the admin and a      *)
(* developer, with and without attachments; sprints and projects are       *)
(* deleted.                                                                *)
(***************************************************************************)
RefsIssueBodies ==
  {[NoBody EXCEPT !.projectId = pid, !.title = "Bug 1", !.sprintId = sp, !.files = n]
     : pid \in ProjectIds, sp \in {AbsentId} \cup SprintIds, n \in 0..MaxAttachments}

RefsUpdateBodies ==
  {[NoBody EXCEPT !.sprintId = sp] : sp \in {NoId} \cup SprintIds}

NextRefs ==
  \/ CreateProject("a", Named("Alpha"))
  \/ \E pid \in ProjectIds : CreateSprint("a", pid, Named("Sprint 1"))
  \/ \E actor \in {"a", "d"}, body \in RefsIssueBodies : CreateIssue(actor, body)
  \/ \E id \in IssueIds, body \in RefsUpdateBodies : UpdateIssue("a", id, body)
  \/ \E sid \in SprintIds, id \in IssueIds :
       AssignIssue("a", sid, [NoBody EXCEPT !.issueId = id])
  \/ \E sid \in SprintIds : DeleteSprint("a", sid)
  \/ \E pid \in ProjectIds : DeleteProject("a", pid)

SpecRefs == Init /\ [][NextRefs]_vars

(***************************************************************************)
(* Properties of deletes and references                                    *)
(***************************************************************************)
\* C3: a delete of an existing project by an admin is answered 200, removes
\* exactly the issues and the sprints of that project and nothing of another
\* project, and the counts deletedIssues and deletedSprints, where the answer
\* has them, are the numbers of issues and sprints the project had.
C3_ProjectDeleteComplete ==
  [][\A pid \in ProjectIds :
       /\ Handled("deleteProject")
       /\ req'.id = pid
       /\ Role[req'.actor] = "admin"
       /\ \E p \in projects : p.id = pid
       => /\ resp'.code = 200
          /\ issues' = {i \in issues : i.projectId # pid}
          /\ sprints' = {sp \in sprints : sp.projectId # pid}
          /\ resp'.deletedIssues # Undefined =>
               resp'.deletedIssues = Cardinality({i \in issues : i.projectId = pid})
          /\ resp'.deletedSprints # Undefined =>
               resp'.deletedSprints = Cardinality({sp \in sprints : sp.projectId = pid})]_vars

\* an admin has asked to delete a project while a notification was stored,
\* and the project is still there
C3_Witness ==
  /\ req.op = "deleteProject"
  /\ Role[req.actor] = "admin"
  /\ notifications # <<>>
  /\ \E p \in projects : p.id = req.id

\* C7: in every reachable state an issue whose sprintId is not null names a
\* sprint that is stored and that belongs to the project of the issue.
C7_SprintReference ==
  \A i \in issues :
    i.sprintId # NoId =>
      \E sp \in sprints : sp.id = i.sprintId /\ sp.projectId = i.projectId

\* a sprint that held an issue has been deleted and the issue is still stored
C7_Witness ==
  /\ req.op = "deleteSprint"
  /\ resp.code = 200
  /\ resp.movedIssues >= 1
  /\ issues # {}

(***************************************************************************)
(* Properties of sprint delete, close and update                           *)
(***************************************************************************)
\* C11: where the server has the sprint delete route, a delete of a stored
\* sprint by an admin is answered 200, removes that sprint and no other,
\* sets to null the sprintId of every issue that named it whatever the
\* issue's status, changes nothing else of any issue, and reports as
\* movedIssues the number of issues that named it.
C11_SprintDelete ==
  [][\A sid \in SprintIds :
       /\ Handled("deleteSprint")
       /\ req'.id = sid
       /\ variant = "enhanced"
       /\ Role[req'.actor] = "admin"
       /\ \E sp \in sprints : sp.id = sid
       => /\ resp'.code = 200
          /\ sprints' = {sp \in sprints : sp.id # sid}
          /\ issues' = {IF i.sprintId = sid THEN [i EXCEPT !.sprintId = NoId] ELSE i
                          : i \in issues}
          /\ resp'.movedIssues = Cardinality({i \in issues : i.sprintId = sid})]_vars

\* a sprint that held a Done issue has been deleted, and the issue is in the backlog
C11_Witness ==
  /\ req.op = "deleteSprint"
  /\ resp.code = 200
  /\ resp.movedIssues >= 1
  /\ ~\E sp \in sprints : sp.id = req.id
  /\ \E i \in issues : i.status = "Done" /\ i.sprintId = NoId

\* who may manage the sprints of a project: admin, project manager, owner
MayManageSprint(actor, sprint) ==
  \E p \in projects :
    /\ p.id = sprint.projectId
    /\ Role[actor] \in {"admin", "project_manager"} \/ p.ownerId = actor

\* C12: close by a user who may manage the sprint, on a sprint that is not
\* closed, is answered 200 and leaves the sprint closed with closedAt the
\* current time and endDate the old endDate, or closedAt when there was none;
\* on a closed sprint it is answered with the error "Sprint already closed"
\* and changes no sprint and no issue.
C12_Close ==
  [][\A sid \in SprintIds :
       /\ Handled("closeSprint")
       /\ req'.id = sid
       /\ \E sp \in sprints : sp.id = sid /\ MayManageSprint(req'.actor, sp)
       => LET old == SprintOf(sprints, sid) IN
          IF old.status # "closed"
          THEN /\ resp'.code = 200
               /\ \E new \in sprints' :
                    /\ new.id = sid
                    /\ new.status = "closed"
                    /\ new.closedAt = now
                    /\ new.endDate = IF old.endDate = NoId THEN now ELSE old.endDate
          ELSE /\ resp'.code \in {400, 500}
               /\ resp'.msg = "Sprint already closed"
               /\ sprints' = sprints
               /\ issues' = issues]_vars

\* a sprint with an end date of its own has been closed and has kept it
C12_Witness ==
  /\ req.op = "closeSprint"
  /\ resp.code = 200
  /\ \E sp \in sprints :
       sp.id = req.id /\ sp.status = "closed" /\ sp.endDate # NoId /\ sp.endDate # sp.closedAt

\* C13: where the server has the sprint update route, an update of a stored
\* sprint by a user who may manage it is answered 200; the name becomes the
\* given name when one is given; startDate and endDate become the given ones
\* only when the sprint is in planning, and stay as they were when it is
\* active or closed; status and closedAt stay as they were, and so does
\* every other sprint.
C13_SprintUpdateFrame ==
  [][\A sid \in SprintIds :
       /\ Handled("updateSprint")
       /\ req'.id = sid
       /\ variant = "base"
       /\ \E sp \in sprints : sp.id = sid /\ MayManageSprint(req'.actor, sp)
       => LET old == SprintOf(sprints, sid)
              b == req'.body
              planning == old.status = "planning"
          IN /\ resp'.code = 200
             /\ \E new \in sprints' :
                  /\ new.id = sid
                  /\ sprints' \ {new} = sprints \ {old}
                  /\ new.name = IF TruthyStr(b.name) THEN b.name ELSE old.name
                  /\ new.startDate = IF planning /\ TruthyId(b.startDate)
                                     THEN b.startDate ELSE old.startDate
                  /\ new.endDate = IF planning /\ TruthyId(b.endDate)
                                   THEN b.endDate ELSE old.endDate
                  /\ new.status = old.status
                  /\ new.closedAt = old.closedAt]_vars

\* an update that gives dates has been answered 200 on a sprint that is not
\* in planning, and the sprint does not have the given end date
C13_Witness ==
  /\ req.op = "updateSprint"
  /\ resp.code = 200
  /\ TruthyId(req.body.endDate)
  /\ \E sp \in sprints :
       sp.id = req.id /\ sp.status \in {"active", "closed"} /\ sp.endDate # req.body.endDate

(***************************************************************************)
(* Properties of the workflow                                              *)
(***************************************************************************)
\* C14: PUT /api/projects/:projectId/workflow for a stored project by an
\* admin, a project manager or the owner, with a list of statuses that is
\* not empty, is answered 200 and leaves the project's workflow with exactly
\* the given statuses; with no statuses it is answered with an error and
\* leaves the workflows as they were.
C14_WorkflowReplaced ==
  [][\A pid \in ProjectIds :
       /\ Handled("putWorkflow")
       /\ req'.id = pid
       /\ \E p \in projects :
            /\ p.id = pid
            /\ Role[req'.actor] \in {"admin", "project_manager"} \/ p.ownerId = req'.actor
       => IF req'.body.statuses # <<>>
          THEN /\ resp'.code = 200
               /\ \E k \in 1..Len(workflows') :
                    /\ workflows'[k].projectId = pid
                    /\ workflows'[k].statuses = req'.body.statuses
               /\ \A k \in 1..Len(workflows') :
                    workflows'[k].projectId = pid => workflows'[k].statuses = req'.body.statuses
          ELSE /\ resp'.code \in {400, 500}
               /\ workflows' = workflows]_vars

\* an admin has asked to replace the statuses of a stored project's workflow,
\* and the stored workflow does not have them
C14_Witness ==
  /\ req.op = "putWorkflow"
  /\ Role[req.actor] = "admin"
  /\ req.body.statuses = NewStatuses
  /\ \E p \in projects : p.id = req.id
  /\ \A k \in 1..Len(workflows) : workflows[k].statuses # NewStatuses

(***************************************************************************)
(* SpecAccess: one project owned by the project manager, with one sprint;  *)
(* issues, some of them subtasks and some assigned to the viewer or to the *)
(* owner, are created, renamed, put into the sprint and deleted by users   *)
(* of every role, and every user asks to delete the project.               *)
(***************************************************************************)
AccessIssueBodies ==
  {[NoBody EXCEPT !.projectId = 1, !.title = "Bug 1", !.assignee = u, !.parentId = par]
     : u \in {ABSENT, "v", "m"}, par \in {AbsentId, 1}}

NextAccess ==
  \/ projects = {} /\ CreateProject("m", Named("Alpha"))
  \/ CreateSprint("m", 1, Named("Sprint 1"))
  \/ \E actor \in {"m", "d", "v"}, body \in AccessIssueBodies : CreateIssue(actor, body)
  \/ \E id \in IssueIds : UpdateIssue("v", id, [NoBody EXCEPT !.title = "Bug 2"])
  \/ \E id \in IssueIds : AssignIssue("v", 1, [NoBody EXCEPT !.issueId = id])
  \/ \E actor \in UserIds, id \in IssueIds : DeleteIssue(actor, id)
  \/ \E actor \in UserIds : DeleteProject(actor, 1)

SpecAccess == Init /\ [][NextAccess]_vars

(***************************************************************************)
(* Properties of issue delete and of permissions                           *)
(***************************************************************************)
\* C15: a delete of issue X that is answered 200 removes X and every issue
\* whose parentId is X, and no other issue.
C15_DeleteRemovesChildren ==
  [][\A id \in IssueIds :
       /\ Handled("deleteIssue")
       /\ req'.id = id
       /\ resp'.code = 200
       => issues' = {i \in issues : i.id # id /\ i.parentId # id}]_vars

\* an issue has been deleted and a subtask of it is still stored
C15_Witness ==
  /\ req.op = "deleteIssue"
  /\ resp.code = 200
  /\ ~\E i \in issues : i.id = req.id
  /\ \E i \in issues : i.parentId = req.id

\* C16: a delete of a stored project asked by a user who is not an admin,
\* the owner included, is answered 403 and changes none of the projects,
\* issues, sprints, workflows, attachments and notifications.
C16_NonAdminProjectDelete ==
  [][\A pid \in ProjectIds :
       /\ Handled("deleteProject")
       /\ req'.id = pid
       /\ Role[req'.actor] # "admin"
       /\ \E p \in projects : p.id = pid
       => /\ resp'.code = 403
          /\ UNCHANGED <<projects, issues, sprints, workflows, attachments, notifications>>]_vars

\* the owner, who is no admin, has asked to delete the project
C16_Witness ==
  /\ req.op = "deleteProject"
  /\ Role[req.actor] = "project_manager"
  /\ resp.code \in {200, 403}

\* C17: a request of a viewer to create, update or delete an issue or to put
\* an issue into a sprint is never answered with success and leaves the
\* issues as they were.
C17_ViewerChangesNothing ==
  [][/\ req'.op \in {"createIssue", "updateIssue", "deleteIssue", "assignIssue"}
     /\ now' = now
     /\ Role[req'.actor] = "viewer"
     => /\ resp'.code \notin {200, 201}
        /\ issues' = issues]_vars

\* the viewer has asked to update an issue of which the viewer is the assignee
C17_Witness ==
  /\ req.op = "updateIssue"
  /\ Role[req.actor] = "viewer"
  /\ \E i \in issues : i.id = req.id /\ i.assignee = req.actor

NotifyLists == {<<>>} \cup [1..1 -> UserIds] \cup [1..2 -> UserIds]

\* C19: in every reachable state and for every recipient list, the
\* dispatcher keeps the stored notifications as they are and appends, for
\* each distinct user id of the list, exactly one unread notification with
\* the message; an empty list changes nothing.
C19_DispatcherDedupes ==
  \A ids \in NotifyLists :
    LET msg == Message("issue_created", "Bug 1")
        out == sendNotification(variant, notifications, ids, msg)
        n == Len(notifications)
    IN /\ Len(out) = n + Cardinality(Range(ids))
       /\ SubSeq(out, 1, n) = notifications
       /\ \A u \in Range(ids) :
            \E k \in (n + 1)..Len(out) :
              out[k] = [userId |-> u, message |-> msg, read |-> FALSE]

\* the only create request so far has stored the same notification twice for
\* one user
C19_Witness ==
  /\ req.op = "createIssue"
  /\ resp.code = 201
  /\ Len(notifications) = 2
  /\ notifications[1] = notifications[2]
  /\ req.body.assignee = notifications[1].userId
  /\ nextIssueId = 2

\* C20: an update answered 200 keeps the stored notifications; when it
\* changes the status, the status-changed notifications it adds go to the
\* issue's assignee after the update and to the owner of the project, each
\* only when other than the actor, one per user; when it does not change the
\* status it adds no status-changed notification.
C20_StatusChangeRecipients ==
  [][\A id \in IssueIds :
       Updated(id) =>
         LET old == IssueOf(issues, id)
             new == IssueOf(issues', id)
             n == Len(notifications)
             added == SubSeq(notifications', n + 1, Len(notifications'))
             sent == SelectSeq(added, LAMBDA x : x.message.kind = "status_changed")
             owners == {p.ownerId : p \in {q \in projects : q.id = new.projectId}}
             expected == (({new.assignee} \ {NULL}) \cup owners) \ {req'.actor}
         IN /\ SubSeq(notifications', 1, n) = notifications
            /\ IF new.status # old.status
               THEN /\ {sent[k].userId : k \in 1..Len(sent)} = expected
                    /\ Len(sent) = Cardinality(expected)
               ELSE sent = <<>>]_vars

\* an update to "Done" has been answered 200 and the newest notification tells
\* a user other than the actor that the status is now "Done"
C20_Witness ==
  /\ req.op = "updateIssue"
  /\ resp.code = 200
  /\ req.body.status = "Done"
  /\ notifications # <<>>
  /\ LET last == notifications[Len(notifications)] IN
       /\ last.message.kind = "status_changed"
       /\ last.message.status = "Done"
       /\ last.userId # req.actor

(***************************************************************************)
(* SpecClose: one project of the admin with one sprint; the admin and a    *)
(* developer create issues in the sprint and in the backlog, some assigned *)
(* to the developer; the admin starts and closes the sprint, and updates   *)
(* and assigns issues afterwards.                                          *)
(***************************************************************************)
CloseIssueBodies ==
  {[NoBody EXCEPT !.projectId = 1, !.title = "Bug 1", !.status = st,
                  !.assignee = as, !.sprintId = sp]
     : st \in {ABSENT, "Done"}, as \in {ABSENT, "d"}, sp \in {AbsentId, 1}}

CloseUpdateBodies ==
  {[NoBody EXCEPT !.status = "To Do"], [NoBody EXCEPT !.sprintId = 1]}

NextClose ==
  \/ projects = {} /\ CreateProject("a", Named("Alpha"))
  \/ sprints = {} /\ CreateSprint("a", 1, Named("Sprint 1"))
  \/ \E actor \in {"a", "d"}, body \in CloseIssueBodies : CreateIssue(actor, body)
  \/ StartSprint("a", 1)
  \/ CloseSprint("a", 1)
  \/ \E id \in IssueIds, body \in CloseUpdateBodies : UpdateIssue("a", id, body)
  \/ \E id \in IssueIds : AssignIssue("a", 1, [NoBody EXCEPT !.issueId = id])

SpecClose == Init /\ [][NextClose]_vars

\* C21: a close answered 200 keeps the stored notifications and notifies
\* the owner of the project and the assignees of the issues that were in the
\* sprint before the close, those it moves to the backlog included, and
\* nobody else; the user who closes may be left out.
C21_CloseRecipients ==
  [][Handled("closeSprint") /\ resp'.code = 200 =>
       LET sid == req'.id
           owners == {p.ownerId : p \in {q \in projects :
                                          q.id = SprintOf(sprints, sid).projectId}}
           members == {i \in issues : i.sprintId = sid}
           expected == owners \cup ({i.assignee : i \in members} \ {NULL})
           n == Len(notifications)
           sent == {notifications'[k].userId : k \in (n + 1)..Len(notifications')}
       IN /\ SubSeq(notifications', 1, n) = notifications
          /\ expected \ {req'.actor} \subseteq sent
          /\ sent \subseteq expected]_vars

\* a close has moved an issue to the backlog while an assigned issue that
\* was created in the backlog is stored, and has sent a notification
C21_Witness ==
  /\ req.op = "closeSprint"
  /\ resp.code = 200
  /\ notifications # <<>>
  /\ notifications[Len(notifications)].message.kind = "sprint_closed"
  /\ \E i \in issues : i.assignee = "d" /\ i.sprintId = NoId

(***************************************************************************)
(* SpecBurndown: the issues of a sprint get done on different days and     *)
(* the burndown of the sprint is read.                                     *)
(***************************************************************************)
BurndownIssueBodies ==
  {[NoBody EXCEPT !.projectId = 1, !.title = "Bug 1", !.status = st, !.sprintId = sp]
     : st \in {ABSENT, "Done"}, sp \in {AbsentId, 1}}

BurndownUpdateBodies == {[NoBody EXCEPT !.status = st] : st \in {"Done", "To Do"}}

NextBurndown ==
  \/ projects = {} /\ CreateProject("a", Named("Alpha"))
  \/ \E body \in SprintCreateBodies : CreateSprint("a", 1, body)
  \/ \E body \in BurndownIssueBodies : CreateIssue("a", body)
  \/ \E id \in IssueIds, body \in BurndownUpdateBodies : UpdateIssue("a", id, body)
  \/ \E sid \in SprintIds : StartSprint("a", sid)
  \/ \E sid \in SprintIds : CloseSprint("a", sid)
  \/ \E sid \in SprintIds : GetBurndown("a", sid)
  \/ Tick

SpecBurndown == Init /\ [][NextBurndown]_vars

SESSION_EXPIRY == 7
MaxClock == 10
MaxSessions == 2
Tokens == 1..MaxSessions

SessionExpiredAtExpiry(v, sess, t) == v # "base" /\ t - sess.createdAt >= SESSION_EXPIRY

\* Date.now() - sess.createdAt > CONFIG.SESSION_EXPIRY; base never expires a session
SessionExpired(v, sess, t) == v # "base" /\ t - sess.createdAt > SESSION_EXPIRY

HasSession(ss, token) == \E s \in ss : s.token = token
SessionOf(ss, token) == CHOOSE s \in ss : s.token = token

\* authenticate(req): the id of the user of the session, NULL when there is
\* no session for the token or it has expired
authenticate(v, ss, token, t) ==
  IF ~HasSession(ss, token) THEN NULL
  ELSE IF SessionExpired(v, SessionOf(ss, token), t) THEN NULL
  ELSE SessionOf(ss, token).userId

\* sessions.json after authenticate(req): an expired session of the token is deleted
SessionsAfterAuthenticate(v, ss, token, t) ==
  {s \in ss : ~(s.token = token /\ SessionExpired(v, s, t))}

\* who sends the request: the user the token was given to, if any
TokenHolder(ss, token) == IF HasSession(ss, token) THEN SessionOf(ss, token).userId ELSE NULL

\* POST /api/login with the credentials of user
Login(user) ==
  \E token \in Tokens :
    /\ ~HasSession(sessions, token)
    /\ sessions' = sessions \cup {[token |-> token, userId |-> user, createdAt |-> now]}
    /\ req' = Request("login", user, token, NoBody)
    /\ resp' = Response(200, "")
    /\ UNCHANGED <<variant, inflight, projects, issues, sprints, workflows, notifications,
                   attachments, now, nextProjectId, nextIssueId, nextSprintId,
                   nextAttachmentId>>

\* POST /api/logout: master and enhanced delete the session before any
\* authentication; base has no such route and answers 401 or 404
Logout(token) ==
  /\ req' = Request("logout", TokenHolder(sessions, token), token, NoBody)
  /\ resp' = IF variant # "base" THEN Response(200, "")
             ELSE IF authenticate(variant, sessions, token, now) = NULL
             THEN Response(401, "Unauthorized") ELSE Response(404, "Not found")
  /\ sessions' = IF variant = "base" THEN sessions
                 ELSE {s \in sessions : s.token # token}
  /\ UNCHANGED <<variant, inflight, projects, issues, sprints, workflows, notifications,
                 attachments, now, nextProjectId, nextIssueId, nextSprintId,
                 nextAttachmentId>>

\* GET /api/projects: an authenticated read
ListProjects(token) ==
  /\ req' = Request("listProjects", TokenHolder(sessions, token), token, NoBody)
  /\ resp' = IF authenticate(variant, sessions, token, now) = NULL
             THEN Response(401, "Unauthorized") ELSE Response(200, "")
  /\ sessions' = SessionsAfterAuthenticate(variant, sessions, token, now)
  /\ UNCHANGED <<variant, inflight, projects, issues, sprints, workflows, notifications,
                 attachments, now, nextProjectId, nextIssueId, nextSprintId,
                 nextAttachmentId>>

\* the timer callback of setInterval (master and enhanced); it answers
\* nobody, req only tells that it was the last to run
cleanupSessions ==
  /\ variant # "base"
  /\ sessions' = {s \in sessions : ~SessionExpired(variant, s, now)}
  /\ req' = Request("cleanupSessions", NULL, NoId, NoBody)
  /\ UNCHANGED <<variant, inflight, projects, issues, sprints, workflows, notifications,
                 attachments, now, nextProjectId, nextIssueId, nextSprintId,
                 nextAttachmentId, resp>>

\* n days pass
Days(n) ==
  /\ now + n <= MaxClock
  /\ now' = now + n
  /\ UNCHANGED <<variant, sessions, inflight, projects, issues, sprints, workflows,
                 notifications, attachments, nextProjectId, nextIssueId, nextSprintId,
                 nextAttachmentId, req, resp>>

(***************************************************************************)
(* SpecSession: logins, logouts and authenticated reads while days pass    *)
(* and the sweep runs; SpecSessionFair: the timer keeps firing.            *)
(***************************************************************************)
NextSession ==
  \/ \E user \in {"a", "d"} : Login(user)
  \/ \E token \in Tokens : Logout(token)
  \/ \E token \in Tokens : ListProjects(token)
  \/ cleanupSessions
  \/ \E n \in {1, SESSION_EXPIRY} : Days(n)

SpecSession == Init /\ [][NextSession]_vars

SpecSessionFair == SpecSession /\ WF_vars(cleanupSessions)

\* every session record the bounds allow
SessionRecords == [token : Tokens, userId : {"a", "d"}, createdAt : 1..MaxClock]

\* C23: in master and enhanced, a read with the token of a session older
\* than SESSION_EXPIRY is answered 401 and leaves no session for the token,
\* so a read answered 200 used a session that is not older; no step but the
\* logout of its token removes a session that is not older than
\* SESSION_EXPIRY; and a session older than SESSION_EXPIRY is eventually
\* removed, the sweep running again and again.
C23_SessionExpiry ==
  /\ [][variant # "base" =>
         /\ \A s \in sessions :
              /\ Handled("listProjects")
              /\ req'.id = s.token
              /\ now - s.createdAt > SESSION_EXPIRY
              => resp'.code = 401 /\ \A t \in sessions' : t.token # s.token
         /\ \A s \in sessions :
              /\ now - s.createdAt <= SESSION_EXPIRY
              /\ s \notin sessions'
              => Handled("logout") /\ req'.id = s.token /\ resp'.code = 200]_vars
  /\ \A s \in SessionRecords :
       (variant # "base" /\ s \in sessions /\ now - s.createdAt > SESSION_EXPIRY)
         ~> (s \notin sessions)

\* a read with the token of a user has been answered 401 and the session is
\* gone, while a session that is exactly SESSION_EXPIRY old is still stored
C23_Witness ==
  /\ variant # "base"
  /\ req.op = "listProjects"
  /\ req.actor # NULL
  /\ resp.code = 401
  /\ ~HasSession(sessions, req.id)
  /\ \E s \in sessions : now - s.createdAt = SESSION_EXPIRY

(***************************************************************************)
(* PUT /api/issues/:id in two steps.  The handler reads issues.json and    *)
(* projects.json, checks 404 and 403, and then awaits the request body;    *)
(* while it waits the server handles other requests.  When the body has    *)
(* arrived it changes the issue object of the array it read and writes     *)
(* that array.  Workflows, users and sprints are read after the await.     *)
(***************************************************************************)
BeginUpdateIssue(actor, id) ==
  LET r == Request("updateIssue", actor, id, NoBody) IN
  /\ inflight = NoInflight
  /\ IF ~HasIssue(issues, id) THEN Reject(r, Response(404, "Issue not found"))
     ELSE IF ~CanEdit(actor, IssueOf(issues, id), projects)
     THEN Reject(r, Response(403, "Forbidden"))
     ELSE
       /\ inflight' = [NoInflight EXCEPT !.op = "updateIssue", !.actor = actor,
                                         !.id = id, !.issues = issues]
       /\ UNCHANGED <<variant, sessions, projects, issues, sprints, workflows,
                      notifications, attachments, now, nextProjectId, nextIssueId,
                      nextSprintId, nextAttachmentId, req, resp>>

\* the answer of a request that was waiting, when it writes no collection
\* but (through ensureWorkflow) workflows.json
SettleAfterWorkflow(r, rs, wfs) ==
  /\ req' = r
  /\ resp' = rs
  /\ workflows' = wfs
  /\ inflight' = NoInflight
  /\ UNCHANGED <<variant, sessions, projects, issues, sprints, notifications,
                 attachments, now, nextProjectId, nextIssueId, nextSprintId,
                 nextAttachmentId>>

\* the issues.json that the update writes: the array it read, its issue changed
WrittenIssues(read, current, issue, after) == (read \ {issue}) \cup {after}

FinishUpdateIssue(body) ==
  LET actor == inflight.actor
      id == inflight.id
      r == Request("updateIssue", actor, id, body)
  IN
  /\ inflight.op = "updateIssue"
  /\ LET issue == IssueOf(inflight.issues, id)
         wfs == IF body.status # ABSENT
                THEN ensureWorkflow(workflows, issue.projectId) ELSE workflows
         err == UpdateIssueError(variant, issue, body, workflows, inflight.issues, sprints)
     IN
     IF err # "" THEN SettleAfterWorkflow(r, Thrown(variant, err), wfs)
     ELSE
       LET after == UpdatedIssue(variant, issue, body, now)
           files == Uploaded(variant, body.files, id)
           ns1 == IF after.status # issue.status
                  THEN sendNotification(variant, notifications,
                         StatusNotifyIds(variant, actor, after, projects),
                         [Message("status_changed", after.title)
                            EXCEPT !.status = after.status])
                  ELSE notifications
           ns2 == IF after.assignee # issue.assignee
                  THEN sendNotification(variant, ns1,
                         AssigneeNotifyIds(variant, actor, after),
                         Message("assigned", after.title))
                  ELSE ns1
       IN
       /\ nextAttachmentId + Cardinality(files) <= MaxAttachments + 1
       /\ Len(ns2) <= MaxNotifications
       /\ issues' = WrittenIssues(inflight.issues, issues, issue, after)
       /\ workflows' = wfs
       /\ attachments' = attachments \cup files
       /\ nextAttachmentId' = nextAttachmentId + Cardinality(files)
       /\ notifications' = ns2
       /\ req' = r
       /\ resp' = Response(200, "")
       /\ inflight' = NoInflight
       /\ UNCHANGED <<variant, sessions, projects, sprints, now, nextProjectId,
                      nextIssueId, nextSprintId>>

(***************************************************************************)
(* SpecFlight: the admin updates an issue while issues are created and     *)
(* deleted and the sprint is closed; the other requests arrive whole.      *)
(***************************************************************************)
FlightIssueBodies ==
  {[NoBody EXCEPT !.projectId = 1, !.title = "Bug 1", !.sprintId = sp]
     : sp \in {AbsentId, 1}}

FlightUpdateBodies ==
  {[NoBody EXCEPT !.title = "Bug 2"], [NoBody EXCEPT !.status = "Open"]}

NextFlight ==
  \/ projects = {} /\ CreateProject("a", Named("Alpha"))
  \/ sprints = {} /\ CreateSprint("a", 1, Named("Sprint 1"))
  \/ \E body \in FlightIssueBodies : CreateIssue("a", body)
  \/ \E id \in IssueIds : BeginUpdateIssue("a", id)
  \/ \E body \in FlightUpdateBodies : FinishUpdateIssue(body)
  \/ \E id \in IssueIds : DeleteIssue("a", id)
  \/ StartSprint("a", 1)
  \/ CloseSprint("a", 1)

SpecFlight == Init /\ [][NextFlight]_vars

\* the step ends the update that was waiting for its body
Finished(op) == inflight.op = op /\ inflight' = NoInflight

\* C24: when an update that was waiting for its body ends, what other
\* requests did meanwhile stays done: no issue that is absent comes back, no
\* issue that is stored gets lost, and an issue that is not "Done" and that a
\* close has moved to the backlog since the update read it still has no
\* sprint, unless the update itself names a sprint.
C24_UpdateKeepsOthers ==
  [][Finished("updateIssue") =>
       /\ \A i \in issues' : HasIssue(issues, i.id)
       /\ \A i \in issues : HasIssue(issues', i.id)
       /\ \A i \in issues : \A o \in inflight.issues :
            /\ o.id = i.id
            /\ o.sprintId # NoId
            /\ i.sprintId = NoId
            /\ i.status # "Done"
            /\ ~(i.id = inflight.id /\ req'.body.sprintId # AbsentId)
            => IssueOf(issues', i.id).sprintId = NoId]_vars

\* while an update is waiting for its body, a delete has been answered 200
\* for an issue that the update has read
C24_Witness ==
  /\ inflight.op = "updateIssue"
  /\ req.op = "deleteIssue"
  /\ resp.code = 200
  /\ ~HasIssue(issues, req.id)
  /\ HasIssue(inflight.issues, req.id)

(***************************************************************************)
(* PUT /api/sprints/:sprintId in two steps (base): the handler reads       *)
(* sprints.json and projects.json, checks 404 and 403, awaits the request  *)
(* body, changes the sprint object of the array it read and writes that    *)
(* array.                                                                  *)
(***************************************************************************)
BeginUpdateSprint(actor, sid) ==
  LET r == Request("updateSprint", actor, sid, NoBody) IN
  /\ inflight = NoInflight
  /\ IF variant # "base" THEN NoRoute(r)
     ELSE IF ~HasSprint(sprints, sid) THEN Reject(r, Response(404, "Sprint not found"))
     ELSE IF ~HasProject(projects, SprintOf(sprints, sid).projectId)
     THEN Reject(r, Response(404, "Project not found"))
     ELSE IF ~MayManage(actor, ProjectOf(projects, SprintOf(sprints, sid).projectId))
     THEN Reject(r, Response(403, "Forbidden"))
     ELSE
       /\ inflight' = [NoInflight EXCEPT !.op = "updateSprint", !.actor = actor,
                                         !.id = sid, !.sprints = sprints]
       /\ UNCHANGED <<variant, sessions, projects, issues, sprints, workflows,
                      notifications, attachments, now, nextProjectId, nextIssueId,
                      nextSprintId, nextAttachmentId, req, resp>>

FinishUpdateSprint(body) ==
  /\ inflight.op = "updateSprint"
  /\ LET sprint == SprintOf(inflight.sprints, inflight.id) IN
     sprints' = (inflight.sprints \ {sprint}) \cup {UpdatedSprint(sprint, body)}
  /\ req' = Request("updateSprint", inflight.actor, inflight.id, body)
  /\ resp' = Response(200, "")
  /\ inflight' = NoInflight
  /\ UNCHANGED <<variant, sessions, projects, issues, workflows, notifications,
                 attachments, now, nextProjectId, nextIssueId, nextSprintId,
                 nextAttachmentId>>

(***************************************************************************)
(* SpecSprintFlight: the admin updates a sprint while sprints are created, *)
(* started and closed; the other requests arrive whole.                    *)
(***************************************************************************)
NextSprintFlight ==
  \/ projects = {} /\ CreateProject("a", Named("Alpha"))
  \/ \E body \in SprintCreateBodies : CreateSprint("a", 1, body)
  \/ \E sid \in SprintIds : StartSprint("a", sid)
  \/ \E sid \in SprintIds : CloseSprint("a", sid)
  \/ \E sid \in SprintIds : BeginUpdateSprint("a", sid)
  \/ \E body \in SprintUpdateBodies : FinishUpdateSprint(body)
  \/ Tick

SpecSprintFlight == Init /\ [][NextSprintFlight]_vars

\* C25: when a sprint update that was waiting for its body ends, no stored
\* sprint has a status earlier in planning -> active -> closed than before
\* the step, and a sprint that was not in planning before the step keeps
\* its start date and its end date.
C25_SprintUpdateKeepsStatus ==
  [][Finished("updateSprint") =>
       \A s \in sprints : \A t \in sprints' :
         t.id = s.id =>
           /\ SprintRank(t.status) >= SprintRank(s.status)
           /\ s.status # "planning" =>
                t.startDate = s.startDate /\ t.endDate = s.endDate]_vars

\* while an update of a sprint is waiting for its body, a start or a close
\* of that sprint has been answered 200
C25_Witness ==
  /\ inflight.op = "updateSprint"
  /\ req.op \in {"startSprint", "closeSprint"}
  /\ req.id = inflight.id
  /\ resp.code = 200
  /\ SprintOf(sprints, req.id).status # SprintOf(inflight.sprints, req.id).status

\* C26: in server.js, every stored issue has a doneAt time exactly when its
\* status is "Done", whatever creates and updates came before.
C26_DoneAtIffDone ==
  variant = "base" =>
    \A i \in issues : TruthyId(i.doneAt) <=> i.status = "Done"

\* server.js has just created an issue with the status "Done"
C26_Witness ==
  /\ variant = "base"
  /\ req.op = "createIssue"
  /\ resp.code = 201
  /\ req.body.status = "Done"
  /\ \E i \in issues : i.id = nextIssueId - 1 /\ i.status = "Done"

\* C27: every issue whose sprintId names a closed sprint has the status
\* "Done": the close leaves only "Done" issues in the sprint, and no later
\* create, update or assignment puts an issue that is not "Done" into a
\* closed sprint or takes a member of a closed sprint out of "Done".
C27_ClosedSprintMembersDone ==
  \A i \in issues : \A s \in sprints :
    s.id = i.sprintId /\ s.status = "closed" => i.status = "Done"

\* a sprint has been closed and has kept a member, which is "Done"
C27_Witness ==
  /\ req.op = "closeSprint"
  /\ resp.code = 200
  /\ \E i \in issues : i.sprintId = req.id /\ i.status = "Done"
  /\ \E s \in sprints : s.id = req.id /\ s.status = "closed"

\* C28: every change of the status of a stored sprint is from planning to
\* active or from active to closed; no sprint goes from planning to closed
\* in one step.
C28_SprintStatusSteps ==
  [][\A s \in sprints : \A t \in sprints' :
       t.id = s.id /\ t.status # s.status =>
         \/ s.status = "planning" /\ t.status = "active"
         \/ s.status = "active" /\ t.status = "closed"]_vars

\* a close has been answered 200 for a sprint that has no start date, which
\* every started sprint has
C28_Witness ==
  /\ req.op = "closeSprint"
  /\ resp.code = 200
  /\ \E s \in sprints : s.id = req.id /\ s.status = "closed" /\ s.startDate = NoId

\* C29: every stored issue with a parent names, as its parent, an issue
\* that is stored, whatever creates, updates of parentId, issue deletes and
\* project deletes came before.
C29_ParentExists ==
  \A i \in issues : TruthyId(i.parentId) => \E j \in issues : j.id = i.parentId

\* a subtask has just been created under a stored issue
C29_Witness ==
  /\ req.op = "createIssue"
  /\ resp.code = 201
  /\ TruthyId(req.body.parentId)
  /\ \E i \in issues :
       i.id = nextIssueId - 1 /\ i.parentId = req.body.parentId /\ HasIssue(issues, i.parentId)

\* C30: a project delete that is answered with an error removes nothing:
\* projects, issues, sprints, workflows, attachment records and
\* notifications are as they were before the request.
C30_FailedProjectDeleteKeepsAll ==
  [][Handled("deleteProject") /\ resp'.code # 200 =>
       /\ projects' = projects
       /\ issues' = issues
       /\ sprints' = sprints
       /\ workflows' = workflows
       /\ attachments' = attachments
       /\ notifications' = notifications]_vars

\* the delete of a stored project has been answered with an error
C30_Witness ==
  /\ req.op = "deleteProject"
  /\ resp.code = 404
  /\ HasProject(projects, req.id)
  /\ \E i \in issues : i.projectId = req.id

====
